---- MODULE Spec2Model ----
(***************************************************************************)
(* A model of 0x02-redis_basic/exercise.py: the Cache class with its       *)
(* count_calls / call_history decorators and replay, and the page cache    *)
(* get_page with its count_access / cache_page decorators, all running     *)
(* against one shared Redis database.                                      *)
(*                                                                         *)
(* Text (Python str) is a sequence of Unicode code points, a byte string   *)
(* (Python bytes, every Redis key and value) is a sequence of 0..255.      *)
(* Python values are records [t |-> type, v |-> payload], the payload a   *)
(* sequence of numbers: code points, bytes, or the one number of an int.   *)
(***************************************************************************)
EXTENDS Integers, Sequences, FiniteSets, TLC

\* ------------------------------------------------------------------ bounds
\* Total number of Cache.store invocations in a run.
MaxCalls == 3
\* Number of Cache() constructions (flushdb) after the initial one.
MaxFlush == 1
\* Total number of get_page invocations in a run.
MaxPageCalls == 3
\* The clock runs from 0 to MaxTime seconds.
MaxTime == 11
\* Number of times the upstream content of a url changes.
MaxEdits == 1

\* ------------------------------------------------------- Python values
PyNone == [t |-> "None", v |-> <<>>]
PyStr(s) == [t |-> "str", v |-> s]
PyBytes(b) == [t |-> "bytes", v |-> b]
PyInt(n) == [t |-> "int", v |-> <<n>>]
\* A call that raises the exception e instead of returning.
PyRaise(e) == [t |-> e, v |-> <<>>]
IsRaise(x) == x.t \notin {"None", "str", "bytes", "int", "pending"}
\* The number an int holds.
IntOf(x) == x.v[1]

\* ------------------------------------------------------ text and bytes
RECURSIVE utf8_encode(_)
\* str.encode("utf-8"), for code points below U+0800 (one or two bytes each).
utf8_encode(s) ==
  IF s = <<>> THEN <<>>
  ELSE LET c == Head(s) IN
       (IF c < 128 THEN <<c>> ELSE <<192 + (c \div 64), 128 + (c % 64)>>)
         \o utf8_encode(Tail(s))

RECURSIVE utf8_scan(_)
\* The code points of a byte string, or <<-1>> where it is not valid UTF-8.
utf8_scan(b) ==
  IF b = <<>> THEN <<>>
  ELSE LET c == Head(b) IN
       IF c < 128
       THEN LET r == utf8_scan(Tail(b)) IN
            IF r = <<-1>> THEN r ELSE <<c>> \o r
       ELSE IF c >= 194 /\ c <= 223 /\ Len(b) >= 2 /\ b[2] >= 128 /\ b[2] <= 191
       THEN LET r == utf8_scan(Tail(Tail(b))) IN
            IF r = <<-1>> THEN r ELSE <<(c - 192) * 64 + (b[2] - 128)>> \o r
       ELSE <<-1>>

\* bytes.decode("utf-8"): the text, or UnicodeDecodeError.
utf8_decode(b) ==
  LET r == utf8_scan(b) IN
  IF r = <<-1>> THEN PyRaise("UnicodeDecodeError") ELSE PyStr(r)

RECURSIVE digits(_)
\* The decimal digits of a natural number, as ASCII.
digits(n) == IF n < 10 THEN <<48 + n>> ELSE digits(n \div 10) \o <<48 + (n % 10)>>

\* str(n) / repr(n) of an int.
int_to_text(n) == IF n < 0 THEN <<45>> \o digits(0 - n) ELSE digits(n)

IsDigit(c) == c >= 48 /\ c <= 57
IsSpace(c) == c = 32 \/ (c >= 9 /\ c <= 13)

RECURSIVE lstrip(_)
lstrip(b) == IF b # <<>> /\ IsSpace(Head(b)) THEN lstrip(Tail(b)) ELSE b

RECURSIVE rstrip(_)
rstrip(b) ==
  IF b # <<>> /\ IsSpace(b[Len(b)]) THEN rstrip(SubSeq(b, 1, Len(b) - 1)) ELSE b

RECURSIVE digits_value(_, _)
\* The value of a run of digits and underscores, most significant first.
digits_value(b, acc) ==
  IF b = <<>> THEN acc
  ELSE IF Head(b) = 95 THEN digits_value(Tail(b), acc)
  ELSE digits_value(Tail(b), acc * 10 + (Head(b) - 48))

\* Digits, with single underscores allowed between two digits.
IsDigitRun(b) ==
  /\ b # <<>>
  /\ \A i \in 1..Len(b) :
       \/ IsDigit(b[i])
       \/ b[i] = 95 /\ i > 1 /\ i < Len(b) /\ IsDigit(b[i - 1]) /\ IsDigit(b[i + 1])

\* int(b) of a byte string in base 10: surrounding whitespace, an optional
\* sign, then digits; anything else is a ValueError.
py_int(b) ==
  LET s == rstrip(lstrip(b))
      signed == s # <<>> /\ (s[1] = 45 \/ s[1] = 43)
      body == IF signed THEN Tail(s) ELSE s
  IN IF ~IsDigitRun(body) THEN PyRaise("ValueError")
     ELSE IF signed /\ s[1] = 45 THEN PyInt(0 - digits_value(body, 0))
     ELSE PyInt(digits_value(body, 0))

HexDigit(d) == IF d < 10 THEN 48 + d ELSE 87 + d

RECURSIVE bytes_repr_body(_)
\* The inside of repr(b) of a bytes object: printable ASCII as it is, the
\* quote and the backslash escaped, everything else as \xhh.
bytes_repr_body(b) ==
  IF b = <<>> THEN <<>>
  ELSE LET c == Head(b) IN
       (IF c = 39 \/ c = 92 THEN <<92, c>>
        ELSE IF c = 9 THEN <<92, 116>>
        ELSE IF c = 10 THEN <<92, 110>>
        ELSE IF c = 13 THEN <<92, 114>>
        ELSE IF c >= 32 /\ c < 127 THEN <<c>>
        ELSE <<92, 120, HexDigit(c \div 16), HexDigit(c % 16)>>)
         \o bytes_repr_body(Tail(b))

\* repr(x) of a Python value of the model. The text alphabet holds no
\* quote, backslash or unprintable character, so repr of a str is the text
\* between single quotes.
py_repr(x) ==
  IF x.t = "str" THEN <<39>> \o x.v \o <<39>>
  ELSE IF x.t = "bytes" THEN <<98, 39>> \o bytes_repr_body(x.v) \o <<39>>
  ELSE int_to_text(IntOf(x))

\* str(args) of the one-element argument tuple (data,): "(" repr(data) ",)".
str_args(data) == <<40>> \o py_repr(data) \o <<44, 41>>

\* redis-py's Encoder.encode: what goes on the wire for a value or a key.
encode(x) ==
  IF x.t = "bytes" THEN x.v
  ELSE IF x.t = "str" THEN utf8_encode(x.v)
  ELSE utf8_encode(int_to_text(IntOf(x)))

RECURSIVE hex_pad(_, _)
\* n in lower-case hexadecimal, zero-padded to width digits.
hex_pad(n, width) ==
  IF width = 0 THEN <<>> ELSE hex_pad(n \div 16, width - 1) \o <<HexDigit(n % 16)>>

\* The random numbers uuid.uuid4() can draw: one more than the calls of a run.
UUIDs == 1..(MaxCalls + 1)

\* str(uuid.UUID) of a version-4 UUID whose random bits are n: the canonical
\* 8-4-4-4-12 text, version nibble 4, variant bits 10.
str_uuid(n) ==
  hex_pad(0, 8) \o <<45>> \o hex_pad(0, 4) \o <<45>> \o <<52>> \o hex_pad(0, 3)
    \o <<45>> \o <<56>> \o hex_pad(0, 3) \o <<45>> \o hex_pad(n, 12)

\* ------------------------------------------------------------- the store
\* A Redis database: string values, list values, and expiry times, by key.
EmptyMap == [k \in {} |-> <<>>]
EmptyDb == [str |-> EmptyMap, list |-> EmptyMap, exp |-> EmptyMap]

MapPut(f, k, x) == [j \in DOMAIN f \cup {k} |-> IF j = k THEN x ELSE f[j]]
MapDel(f, k) == [j \in DOMAIN f \ {k} |-> f[j]]

\* GET: the value, None for a missing key, an error reply for a list.
redis_get(db, k) ==
  IF k \in DOMAIN db.str THEN PyBytes(db.str[k])
  ELSE IF k \in DOMAIN db.list THEN PyRaise("ResponseError")
  ELSE PyNone

\* SET: writes the value whatever the key held, and drops its expiry.
redis_set(db, k, val) ==
  [str |-> MapPut(db.str, k, val), list |-> MapDel(db.list, k), exp |-> MapDel(db.exp, k)]

\* SETEX: SET with an expiry ttl seconds from the time of the call.
redis_setex(db, k, ttl, val, t) ==
  [str |-> MapPut(db.str, k, val), list |-> MapDel(db.list, k),
   exp |-> MapPut(db.exp, k, t + ttl)]

\* INCR: a missing key counts from 0; the value is kept as decimal text.
redis_incr(db, k) ==
  LET old == IF k \in DOMAIN db.str THEN IntOf(py_int(db.str[k])) ELSE 0
  IN [db EXCEPT !.str = MapPut(db.str, k, utf8_encode(int_to_text(old + 1)))]

\* RPUSH: appends at the tail, creating the list.
redis_rpush(db, k, val) ==
  [db EXCEPT !.list = MapPut(db.list, k,
                             (IF k \in DOMAIN db.list THEN db.list[k] ELSE <<>>) \o <<val>>)]

\* LRANGE: the elements start..end (0-based, inclusive, negative indexes
\* count from the tail); a missing key is the empty list.
redis_lrange(db, k, start, end) ==
  LET l == IF k \in DOMAIN db.list THEN db.list[k] ELSE <<>>
      lo == IF start < 0 THEN (IF Len(l) + start < 0 THEN 0 ELSE Len(l) + start) ELSE start
      hi == IF end < 0 THEN Len(l) + end ELSE (IF end >= Len(l) THEN Len(l) - 1 ELSE end)
  IN SubSeq(l, lo + 1, hi + 1)

\* redis_flushdb as a DEL of the counter and history keys of Cache.store.
redis_flushdb_own(db) ==
  LET own == {<<67, 97, 99, 104, 101, 46, 115, 116, 111, 114, 101>>,
              <<67, 97, 99, 104, 101, 46, 115, 116, 111, 114, 101, 58, 105, 110, 112, 117, 116, 115>>,
              <<67, 97, 99, 104, 101, 46, 115, 116, 111, 114, 101, 58, 111, 117, 116, 112, 117, 116, 115>>}
  IN [str |-> [k \in DOMAIN db.str \ own |-> db.str[k]],
      list |-> [k \in DOMAIN db.list \ own |-> db.list[k]],
      exp |-> [k \in DOMAIN db.exp \ own |-> db.exp[k]]]

\* FLUSHDB: every key of the database is gone.
redis_flushdb(db) == EmptyDb

\* The store's own expiry: the keys whose time has come are removed.
redis_expire(db, t) ==
  LET dead == {k \in DOMAIN db.exp : db.exp[k] <= t}
  IN [str |-> [k \in DOMAIN db.str \ dead |-> db.str[k]],
      list |-> [k \in DOMAIN db.list \ dead |-> db.list[k]],
      exp |-> [k \in DOMAIN db.exp \ dead |-> db.exp[k]]]

\* A key as the client sends it.
Key(text) == encode(PyStr(text))

\* ------------------------------------------------------------- the state
VARIABLES
  redis,     \* the shared database behind Cache._redis and redis_client
  now,       \* the store's clock, in seconds
  caller,    \* per caller of Cache.store: position and locals of its call
  calls,     \* history: one record per Cache.store invocation, in invocation order
  flushes,   \* history: one record per Cache() construction after the first
  got,       \* the getter call a caller made last, until that caller's next
             \* call or the next Cache()
  player,    \* the caller of replay: position and locals
  stdout,    \* the lines of the running or last replay call, until the next
             \* Cache.store call or Cache() that begins while no replay is running
  client,    \* per caller of get_page: position and locals of its call
  upstream,  \* per url, the content the web server serves now
  edits,     \* history: the number of changes of upstream content
  pages      \* history: one record per get_page invocation, in invocation order

vars == <<redis, now, caller, calls, flushes, got, player, stdout, client, upstream,
          edits, pages>>
cacheVars == <<caller, calls>>
replayVars == <<player, stdout>>
webVars == <<client, upstream, edits, pages>>

\* The callers of Cache.store and of get_page.
Procs == {"c1", "c2"}
Clients == {"w1", "w2"}

\* The data passed to Cache.store: the texts "é" and "42", the integers 42
\* and -7, and the byte string b"\xff".
Values == {PyStr(<<233>>), PyStr(<<52, 50>>), PyInt(42), PyInt(0 - 7), PyBytes(<<255>>)}
\* The text "é" and the integer -7, where callers run concurrently.
TwoValues == {PyStr(<<233>>), PyInt(0 - 7)}

\* Cache.store.__qualname__ and the two history keys made from it.
qualname == <<67, 97, 99, 104, 101, 46, 115, 116, 111, 114, 101>>
input_key == qualname \o <<58, 105, 110, 112, 117, 116, 115>>
output_key == qualname \o <<58, 111, 117, 116, 112, 117, 116, 115>>

Pending == [t |-> "pending", v |-> <<>>]
NoGot == [by |-> "", op |-> "", key |-> <<>>, ret |-> PyNone, fn_calls |-> 0]
IdleCaller == [pc |-> "idle", data |-> PyNone, key |-> <<>>, call |-> 0]
IdlePlayer == [pc |-> "idle", call_count |-> 0, inputs |-> <<>>]

\* The keys Cache.store has generated so far.
Issued == {calls[i].key : i \in 1..Len(calls)} \ {<<>>}

\* ---------------------------------------------------------- Cache.store
\* The callers in the middle of a Cache.store call.
InCall == {p \in Procs : caller[p].pc # "idle"}

\* cache.store(data) is called: control enters the wrapper of count_calls.
store_call(p, data) ==
  /\ caller[p].pc = "idle"
  /\ Len(calls) < MaxCalls
  /\ caller' = [caller EXCEPT ![p] =
                  [pc |-> "L12", data |-> data, key |-> <<>>, call |-> Len(calls) + 1]]
  /\ calls' = Append(calls, [data |-> data, step |-> 0, key |-> <<>>, ret |-> Pending])
  /\ got' = IF got.by = p THEN NoGot ELSE got
  /\ stdout' = IF player.pc = "idle" THEN <<>> ELSE stdout
  /\ UNCHANGED <<redis, now, flushes, player, webVars>>

\* count_calls with the INCR left out.
count_calls_skip(p) ==
  /\ caller[p].pc = "L12"
  /\ caller' = [caller EXCEPT ![p].pc = "L23"]
  /\ calls' = [calls EXCEPT ![caller[p].call].step = 1]
  /\ UNCHANGED <<redis, now, flushes, got, replayVars, webVars>>

\* count_calls' wrapper: INCR of the counter, then on to the wrapped method.
count_calls(p) ==
  /\ caller[p].pc = "L12"
  /\ redis' = redis_incr(redis, Key(qualname))
  /\ caller' = [caller EXCEPT ![p].pc = "L23"]
  /\ calls' = [calls EXCEPT ![caller[p].call].step = 1]
  /\ UNCHANGED <<now, flushes, got, replayVars, webVars>>

\* call_history_inputs with str(data) pushed in place of str(args).
call_history_inputs_data(p) ==
  /\ caller[p].pc = "L23"
  /\ redis' = redis_rpush(redis, Key(input_key),
                          encode(PyStr(IF caller[p].data.t = "int"
                                       THEN int_to_text(IntOf(caller[p].data))
                                       ELSE IF caller[p].data.t = "bytes"
                                       THEN py_repr(caller[p].data)
                                       ELSE caller[p].data.v)))
  /\ caller' = [caller EXCEPT ![p].pc = "L57"]
  /\ calls' = [calls EXCEPT ![caller[p].call].step = 2]
  /\ UNCHANGED <<now, flushes, got, replayVars, webVars>>

\* call_history's wrapper, before the call: RPUSH of str(args) to the inputs.
call_history_inputs(p) ==
  /\ caller[p].pc = "L23"
  /\ redis' = redis_rpush(redis, Key(input_key), encode(PyStr(str_args(caller[p].data))))
  /\ caller' = [caller EXCEPT ![p].pc = "L57"]
  /\ calls' = [calls EXCEPT ![caller[p].call].step = 2]
  /\ UNCHANGED <<now, flushes, got, replayVars, webVars>>

\* uuid.uuid4(): a number no call has drawn before. The numbers are
\* interchangeable, so the one drawn is named by the count of earlier draws.
uuid4 == Cardinality(Issued) + 1

\* store with one uuid drawn for the class instead of one per call.
store_same_key(p) ==
  /\ caller[p].pc = "L57"
  /\ LET key == str_uuid(1) IN
       /\ redis' = redis_set(redis, Key(key), encode(caller[p].data))
       /\ caller' = [caller EXCEPT ![p].pc = "L25", ![p].key = key]
       /\ calls' = [calls EXCEPT ![caller[p].call].step = 3, ![caller[p].call].key = key]
  /\ UNCHANGED <<now, flushes, got, replayVars, webVars>>

\* store with repr(data) written in place of the data.
store_repr(p) ==
  /\ caller[p].pc = "L57"
  /\ LET key == str_uuid(uuid4) IN
       /\ redis' = redis_set(redis, Key(key), encode(PyStr(py_repr(caller[p].data))))
       /\ caller' = [caller EXCEPT ![p].pc = "L25", ![p].key = key]
       /\ calls' = [calls EXCEPT ![caller[p].call].step = 3, ![caller[p].call].key = key]
  /\ UNCHANGED <<now, flushes, got, replayVars, webVars>>

\* The body of store: a new uuid4, SET of the data under its text.
store(p) ==
  /\ caller[p].pc = "L57"
  /\ LET key == str_uuid(uuid4) IN
       /\ redis' = redis_set(redis, Key(key), encode(caller[p].data))
       /\ caller' = [caller EXCEPT ![p].pc = "L25", ![p].key = key]
       /\ calls' = [calls EXCEPT ![caller[p].call].step = 3, ![caller[p].call].key = key]
  /\ UNCHANGED <<now, flushes, got, replayVars, webVars>>

\* call_history's wrapper, after the call: RPUSH of the returned key to the
\* outputs, and the key is returned through both wrappers.
call_history_outputs(p) ==
  /\ caller[p].pc = "L25"
  /\ redis' = redis_rpush(redis, Key(output_key), encode(PyStr(caller[p].key)))
  /\ caller' = [caller EXCEPT ![p] = IdleCaller]
  /\ calls' = [calls EXCEPT ![caller[p].call].step = 4,
                            ![caller[p].call].ret = PyStr(caller[p].key)]
  /\ UNCHANGED <<now, flushes, got, replayVars, webVars>>

\* store_raises with the count taken back when the call fails.
store_raises_rollback(p) ==
  /\ caller[p].pc \in {"L23", "L57", "L25"}
  /\ redis' = [redis EXCEPT !.str = MapPut(redis.str, Key(qualname),
                 utf8_encode(int_to_text(IntOf(py_int(redis.str[Key(qualname)])) - 1)))]
  /\ caller' = [caller EXCEPT ![p] = IdleCaller]
  /\ calls' = [calls EXCEPT ![caller[p].call].ret = PyRaise("ConnectionError")]
  /\ UNCHANGED <<now, flushes, got, replayVars, webVars>>

\* store_raises with the outputs RPUSH of call_history in a finally clause:
\* a call that fails appends the text of the result it does not have.
store_raises_finally(p) ==
  /\ caller[p].pc \in {"L23", "L57", "L25"}
  /\ redis' = redis_rpush(redis, Key(output_key), encode(PyStr(<<78, 111, 110, 101>>)))
  /\ caller' = [caller EXCEPT ![p] = IdleCaller]
  /\ calls' = [calls EXCEPT ![caller[p].call].ret = PyRaise("ConnectionError")]
  /\ UNCHANGED <<now, flushes, got, replayVars, webVars>>

\* The wrapped method fails: the round trip call_history's wrapper or store
\* is about to make raises, and the error leaves the call through both
\* wrappers, which catch nothing. (A call whose first round trip, the INCR,
\* fails leaves no trace in the store: it is no invocation of the model.)
store_raises(p) ==
  /\ caller[p].pc \in {"L23", "L57", "L25"}
  /\ caller' = [caller EXCEPT ![p] = IdleCaller]
  /\ calls' = [calls EXCEPT ![caller[p].call].ret = PyRaise("ConnectionError")]
  /\ UNCHANGED <<redis, now, flushes, got, replayVars, webVars>>

\* Cache_init without the flushdb: the new instance finds the old keys.
Cache_init_keep ==
  /\ Len(flushes) < MaxFlush
  /\ redis' = redis
  /\ flushes' = Append(flushes, [calls |-> Len(calls), pages |-> Len(pages),
                                 keys |-> DOMAIN redis.str \cup DOMAIN redis.list])
  /\ got' = NoGot
  /\ stdout' = IF player.pc = "idle" THEN <<>> ELSE stdout
  /\ UNCHANGED <<now, cacheVars, player, webVars>>

\* Cache(): a new instance is constructed, which flushes the database.
Cache_init ==
  /\ Len(flushes) < MaxFlush
  /\ redis' = redis_flushdb(redis)
  /\ flushes' = Append(flushes, [calls |-> Len(calls), pages |-> Len(pages),
                                 keys |-> DOMAIN redis.str \cup DOMAIN redis.list])
  /\ got' = NoGot
  /\ stdout' = IF player.pc = "idle" THEN <<>> ELSE stdout
  /\ UNCHANGED <<now, cacheVars, player, webVars>>

\* ------------------------------------------------------------ Cache.get
\* The conversion functions get is called with.
apply_fn(fn, d) == IF fn = "decode" THEN utf8_decode(d) ELSE py_int(d)

\* Cache.get with fn applied before the test for a missing key.
Cache_get_eager(db, key, fn) ==
  LET data == redis_get(db, Key(key)) IN
  IF fn # "None"
  THEN [ret |-> IF data = PyNone THEN PyRaise("TypeError") ELSE apply_fn(fn, data.v),
        fn_calls |-> 1]
  ELSE [ret |-> data, fn_calls |-> 0]

\* Cache.get(key, fn): what it returns (or raises) and how often it called fn.
Cache_get(db, key, fn) ==
  LET data == redis_get(db, Key(key)) IN
  IF data = PyNone THEN [ret |-> PyNone, fn_calls |-> 0]
  ELSE IF IsRaise(data) THEN [ret |-> data, fn_calls |-> 0]
  ELSE IF fn # "None" THEN [ret |-> apply_fn(fn, data.v), fn_calls |-> 1]
  ELSE [ret |-> data, fn_calls |-> 0]

\* The keys get is asked for: every uuid text, issued or not, and the counter key.
GetKeys == {str_uuid(n) : n \in UUIDs} \cup {qualname}

get(p, key) ==
  LET r == Cache_get(redis, key, "None") IN
  /\ caller[p].pc = "idle"
  /\ got' = [by |-> p, op |-> "get", key |-> key, ret |-> r.ret, fn_calls |-> r.fn_calls]
  /\ UNCHANGED <<redis, now, cacheVars, flushes, replayVars, webVars>>

get_str(p, key) ==
  LET r == Cache_get(redis, key, "decode") IN
  /\ caller[p].pc = "idle"
  /\ got' = [by |-> p, op |-> "get_str", key |-> key, ret |-> r.ret, fn_calls |-> r.fn_calls]
  /\ UNCHANGED <<redis, now, cacheVars, flushes, replayVars, webVars>>

get_int(p, key) ==
  LET r == Cache_get(redis, key, "int") IN
  /\ caller[p].pc = "idle"
  /\ got' = [by |-> p, op |-> "get_int", key |-> key, ret |-> r.ret, fn_calls |-> r.fn_calls]
  /\ UNCHANGED <<redis, now, cacheVars, flushes, replayVars, webVars>>

\* --------------------------------------------------------------- replay
\* "<qualname> was called <call_count> times:"
header_line(call_count) ==
  qualname \o <<32, 119, 97, 115, 32, 99, 97, 108, 108, 101, 100, 32>>
    \o int_to_text(call_count) \o <<32, 116, 105, 109, 101, 115, 58>>

\* "<qualname>(*<input_str>) -> <output_str>"
call_line(input_str, output_str) ==
  qualname \o <<40, 42>> \o input_str \o <<41, 32, 45, 62, 32>> \o output_str

RECURSIVE replay_lines_swapped(_, _)
\* replay_lines with the output printed in the place of the input.
replay_lines_swapped(inputs, outputs) ==
  IF inputs = <<>> \/ outputs = <<>> THEN <<>>
  ELSE LET input_str == utf8_decode(Head(inputs))
           output_str == utf8_decode(Head(outputs))
       IN IF IsRaise(input_str) \/ IsRaise(output_str) THEN <<>>
          ELSE <<call_line(output_str.v, input_str.v)>>
                 \o replay_lines_swapped(Tail(inputs), Tail(outputs))

RECURSIVE replay_lines_strict(_, _)
\* replay_lines as zip(..., strict=True) would have it: lists of unequal
\* length end the loop with an error before a line is printed.
replay_lines_strict(inputs, outputs) ==
  IF Len(inputs) # Len(outputs) \/ inputs = <<>> THEN <<>>
  ELSE <<call_line(utf8_decode(Head(inputs)).v, utf8_decode(Head(outputs)).v)>>
         \o replay_lines_strict(Tail(inputs), Tail(outputs))

RECURSIVE replay_lines(_, _)
\* The loop over zip(inputs, outputs): one line per pair, up to the shorter
\* list; a pair that does not decode ends the loop with an error.
replay_lines(inputs, outputs) ==
  IF inputs = <<>> \/ outputs = <<>> THEN <<>>
  ELSE LET input_str == utf8_decode(Head(inputs))
           output_str == utf8_decode(Head(outputs))
       IN IF IsRaise(input_str) \/ IsRaise(output_str) THEN <<>>
          ELSE <<call_line(input_str.v, output_str.v)>>
                 \o replay_lines(Tail(inputs), Tail(outputs))

\* replay(cache.store), first round trip: GET of the counter, the header.
replay_count ==
  /\ player.pc = "idle"
  /\ LET call_count == redis_get(redis, Key(qualname))
         n == IF call_count.t = "bytes" /\ call_count.v # <<>>
              THEN IntOf(py_int(call_count.v)) ELSE 0
     IN /\ player' = [pc |-> "L38", call_count |-> n, inputs |-> <<>>]
        /\ stdout' = <<header_line(n)>>
  /\ UNCHANGED <<redis, now, cacheVars, flushes, got, webVars>>

\* Second round trip: LRANGE of the inputs.
replay_inputs ==
  /\ player.pc = "L38"
  /\ player' = [player EXCEPT !.pc = "L39",
                              !.inputs = redis_lrange(redis, Key(input_key), 0, 0 - 1)]
  /\ UNCHANGED <<redis, now, cacheVars, flushes, got, stdout, webVars>>

\* Third round trip: LRANGE of the outputs, then the loop that prints.
replay_outputs ==
  /\ player.pc = "L39"
  /\ LET outputs == redis_lrange(redis, Key(output_key), 0, 0 - 1)
     IN stdout' = stdout \o replay_lines(player.inputs, outputs)
  /\ player' = IdlePlayer
  /\ UNCHANGED <<redis, now, cacheVars, flushes, got, webVars>>

\* ------------------------------------------------------------- get_page
\* The urls asked for and the contents a web server serves.
URLs == {<<104, 116, 116, 112, 58, 47, 47, 97>>, <<104, 116, 116, 112, 58, 47, 47, 98>>}
Contents == {<<118, 49>>, <<112, 97, 103, 101, 32, 233>>}

\* The expiry cache_page gives an entry, in seconds.
TTL == 10

count_key(url) == <<99, 111, 117, 110, 116, 58>> \o url
cache_key(url) == <<99, 97, 99, 104, 101, 58>> \o url

\* The module-level client of the page cache: the same database.
redis_client == redis

IdleClient == [pc |-> "idle", url |-> <<>>, content |-> <<>>, call |-> 0]

\* get_page(url) is called: control enters the wrapper of count_access.
page_call(w, url) ==
  /\ client[w].pc = "idle"
  /\ Len(pages) < MaxPageCalls
  /\ client' = [client EXCEPT ![w] =
                  [pc |-> "L83", url |-> url, content |-> <<>>, call |-> Len(pages) + 1]]
  /\ pages' = Append(pages, [url |-> url, step |-> 0, hit |-> 0, fetches |-> 0,
                             set_at |-> 0 - 1, live |-> FALSE, ret |-> Pending])
  /\ UNCHANGED <<redis, now, cacheVars, flushes, got, replayVars, upstream, edits>>

\* count_access placed inside cache_page: the INCR only where the entry is missing.
count_access_on_miss(w) ==
  /\ client[w].pc = "L83"
  /\ redis' = IF redis_get(redis, Key(cache_key(client[w].url))) = PyNone
              THEN redis_incr(redis, Key(count_key(client[w].url))) ELSE redis
  /\ client' = [client EXCEPT ![w].pc = "L93"]
  /\ pages' = [pages EXCEPT ![client[w].call].step = 1]
  /\ UNCHANGED <<now, cacheVars, flushes, got, replayVars, upstream, edits>>

\* count_access with the counter given the entry's expiry: INCR, then EXPIRE.
count_access_expiring(w) ==
  /\ client[w].pc = "L83"
  /\ redis' = [redis_incr(redis_client, Key(count_key(client[w].url)))
                 EXCEPT !.exp = MapPut(redis.exp, Key(count_key(client[w].url)), now + TTL)]
  /\ client' = [client EXCEPT ![w].pc = "L93"]
  /\ pages' = [pages EXCEPT ![client[w].call].step = 1]
  /\ UNCHANGED <<now, cacheVars, flushes, got, replayVars, upstream, edits>>

\* count_access' wrapper: INCR of count:<url>, then on to the wrapped method.
count_access(w) ==
  /\ client[w].pc = "L83"
  /\ redis' = redis_incr(redis_client, Key(count_key(client[w].url)))
  /\ client' = [client EXCEPT ![w].pc = "L93"]
  /\ pages' = [pages EXCEPT ![client[w].call].step = 1]
  /\ UNCHANGED <<now, cacheVars, flushes, got, replayVars, upstream, edits>>

\* The call, if any, whose SETEX wrote the entry cache:<url> holds now.
Author(url) ==
  IF Key(cache_key(url)) \notin DOMAIN redis.str THEN 0
  ELSE LET w == {i \in 1..Len(pages) : pages[i].url = url /\ pages[i].live}
       IN IF w = {} THEN 0 ELSE CHOOSE i \in w : TRUE

\* cache_page_lookup with the entry ignored: every call goes on to fetch.
cache_page_lookup_refetch(w) ==
  /\ client[w].pc = "L93"
  /\ client' = [client EXCEPT ![w].pc = "L96"]
  /\ pages' = [pages EXCEPT ![client[w].call].step = 2,
                            ![client[w].call].hit = Author(client[w].url)]
  /\ UNCHANGED <<redis, now, cacheVars, flushes, got, replayVars, upstream, edits>>

\* cache_page_lookup with the expiry renewed by every hit.
cache_page_lookup_touch(w) ==
  /\ client[w].pc = "L93"
  /\ LET cached_content == redis_get(redis_client, Key(cache_key(client[w].url)))
     IN IF cached_content # PyNone
        THEN /\ client' = [client EXCEPT ![w] = IdleClient]
             /\ redis' = redis_setex(redis_client, Key(cache_key(client[w].url)), TTL,
                                     cached_content.v, now)
             /\ pages' = [pages EXCEPT ![client[w].call].step = 2,
                                       ![client[w].call].hit = Author(client[w].url),
                                       ![client[w].call].ret = utf8_decode(cached_content.v)]
        ELSE /\ client' = [client EXCEPT ![w].pc = "L96"]
             /\ redis' = redis
             /\ pages' = [pages EXCEPT ![client[w].call].step = 2]
  /\ UNCHANGED <<now, cacheVars, flushes, got, replayVars, upstream, edits>>

\* cache_page's wrapper: GET of cache:<url>; an entry is decoded and
\* returned, a miss goes on to the wrapped method.
cache_page_lookup(w) ==
  /\ client[w].pc = "L93"
  /\ LET cached_content == redis_get(redis_client, Key(cache_key(client[w].url)))
     IN IF cached_content # PyNone
        THEN /\ client' = [client EXCEPT ![w] = IdleClient]
             /\ pages' = [pages EXCEPT ![client[w].call].step = 2,
                                       ![client[w].call].hit = Author(client[w].url),
                                       ![client[w].call].ret = utf8_decode(cached_content.v)]
        ELSE /\ client' = [client EXCEPT ![w].pc = "L96"]
             /\ pages' = [pages EXCEPT ![client[w].call].step = 2]
  /\ UNCHANGED <<redis, now, cacheVars, flushes, got, replayVars, upstream, edits>>

\* get_page itself: requests.get(url).text, what the server serves now.
get_page(w) ==
  /\ client[w].pc = "L96"
  /\ client' = [client EXCEPT ![w].pc = "L97", ![w].content = upstream[client[w].url]]
  /\ pages' = [pages EXCEPT ![client[w].call].step = 3, ![client[w].call].fetches = 1]
  /\ UNCHANGED <<redis, now, cacheVars, flushes, got, replayVars, upstream, edits>>

\* get_page_raises with the failure cached: an empty entry is written for
\* the url before the error leaves the call.
get_page_raises_cached(w) ==
  /\ client[w].pc = "L96"
  /\ redis' = redis_setex(redis_client, Key(cache_key(client[w].url)), TTL, <<>>, now)
  /\ client' = [client EXCEPT ![w] = IdleClient]
  /\ pages' = [pages EXCEPT ![client[w].call].ret = PyRaise("RequestException")]
  /\ UNCHANGED <<now, cacheVars, flushes, got, replayVars, upstream, edits>>

\* requests.get fails: the error leaves get_page through both wrappers.
get_page_raises(w) ==
  /\ client[w].pc = "L96"
  /\ client' = [client EXCEPT ![w] = IdleClient]
  /\ pages' = [pages EXCEPT ![client[w].call].ret = PyRaise("RequestException")]
  /\ UNCHANGED <<redis, now, cacheVars, flushes, got, replayVars, upstream, edits>>

\* cache_page_store as SET ... NX EX: an entry that is there is left alone.
cache_page_store_nx(w) ==
  /\ client[w].pc = "L97"
  /\ redis' = IF Key(cache_key(client[w].url)) \in DOMAIN redis.str THEN redis
              ELSE redis_setex(redis_client, Key(cache_key(client[w].url)), TTL,
                               encode(PyStr(client[w].content)), now)
  /\ client' = [client EXCEPT ![w] = IdleClient]
  /\ pages' = [i \in 1..Len(pages) |->
                IF i = client[w].call
                THEN [pages[i] EXCEPT !.step = 4, !.set_at = now,
                                      !.live = Key(cache_key(client[w].url)) \notin DOMAIN redis.str,
                                      !.ret = PyStr(client[w].content)]
                ELSE IF pages[i].url = client[w].url
                        /\ Key(cache_key(client[w].url)) \notin DOMAIN redis.str
                THEN [pages[i] EXCEPT !.live = FALSE]
                ELSE pages[i]]
  /\ UNCHANGED <<now, cacheVars, flushes, got, replayVars, upstream, edits>>

\* cache_page's wrapper after the fetch: SETEX of the content for TTL
\* seconds, and the content is returned.
cache_page_store(w) ==
  /\ client[w].pc = "L97"
  /\ redis' = redis_setex(redis_client, Key(cache_key(client[w].url)), TTL,
                          encode(PyStr(client[w].content)), now)
  /\ client' = [client EXCEPT ![w] = IdleClient]
  /\ pages' = [i \in 1..Len(pages) |->
                IF i = client[w].call
                THEN [pages[i] EXCEPT !.step = 4, !.set_at = now, !.live = TRUE,
                                      !.ret = PyStr(client[w].content)]
                ELSE IF pages[i].url = client[w].url THEN [pages[i] EXCEPT !.live = FALSE]
                ELSE pages[i]]
  /\ UNCHANGED <<now, cacheVars, flushes, got, replayVars, upstream, edits>>

\* A second passes; the store drops the entries whose expiry has come.
Tick ==
  /\ now < MaxTime
  /\ now' = now + 1
  /\ redis' = redis_expire(redis, now + 1)
  /\ UNCHANGED <<cacheVars, flushes, got, replayVars, webVars>>

\* The web server starts serving another content for a url.
upstream_edit(url) ==
  /\ edits < MaxEdits
  /\ \E c \in Contents \ {upstream[url]} : upstream' = [upstream EXCEPT ![url] = c]
  /\ edits' = edits + 1
  /\ UNCHANGED <<redis, now, cacheVars, flushes, got, replayVars, client, pages>>

\* ------------------------------------------------------ specifications
Init ==
  /\ redis = EmptyDb
  /\ now = 0
  /\ caller = [p \in Procs |-> IdleCaller]
  /\ calls = <<>>
  /\ flushes = <<>>
  /\ got = NoGot
  /\ player = IdlePlayer
  /\ stdout = <<>>
  /\ client = [w \in Clients |-> IdleClient]
  /\ upstream = [url \in URLs |-> <<118, 49>>]
  /\ edits = 0
  /\ pages = <<>>

\* The steps of Cache.store calls made by the callers P with data from V.
StoreStep(P, V) ==
  \E p \in P :
    \/ \E data \in V : store_call(p, data)
    \/ count_calls(p)
    \/ call_history_inputs(p)
    \/ store(p)
    \/ call_history_outputs(p)

\* A store round trip of one of the callers P fails.
FailStep(P) == \E p \in P : store_raises(p)

\* The getter calls made by the callers P.
GetStep(P) == \E p \in P, key \in GetKeys : get(p, key) \/ get_str(p, key) \/ get_int(p, key)

ReplayStep == replay_count \/ replay_inputs \/ replay_outputs

\* The steps of get_page calls made by the clients W for the urls U.
PageStep(W, U) ==
  \E w \in W :
    \/ \E url \in U : page_call(w, url)
    \/ count_access(w)
    \/ cache_page_lookup(w)
    \/ get_page(w)
    \/ get_page_raises(w)
    \/ cache_page_store(w)

EditStep == \E url \in URLs : upstream_edit(url)

\* Cache.store under concurrent callers and failing round trips.
NextStore == StoreStep(Procs, TwoValues) \/ FailStep(Procs)
SpecStore == Init /\ [][NextStore]_vars

\* A program of one thread that stores and reads back.
NextGet == StoreStep({"c1"}, Values) \/ GetStep({"c1"})
SpecGet == Init /\ [][NextGet]_vars

\* A program of one thread that makes one call at a time: Cache.store calls,
\* some of which fail, and replay calls.
NextSeq ==
  \/ \E data \in Values : player.pc = "idle" /\ store_call("c1", data)
  \/ count_calls("c1")
  \/ call_history_inputs("c1")
  \/ store("c1")
  \/ call_history_outputs("c1")
  \/ store_raises("c1")
  \/ caller["c1"].pc = "idle" /\ replay_count
  \/ replay_inputs
  \/ replay_outputs
SpecSeq == Init /\ [][NextSeq]_vars

\* Cache.store under concurrent callers and failing round trips, with replay
\* running beside them.
NextReplay == StoreStep(Procs, {PyInt(0 - 7)}) \/ FailStep(Procs) \/ ReplayStep
SpecReplay == Init /\ [][NextReplay]_vars

\* The page cache under one client, its clock and its web server.
NextWeb == PageStep({"w1"}, URLs) \/ Tick \/ EditStep
SpecWeb == Init /\ [][NextWeb]_vars

\* The page cache under concurrent clients of one url.
OneURL == {<<104, 116, 116, 112, 58, 47, 47, 97>>}
NextRace == PageStep(Clients, OneURL) \/ Tick \/ EditStep
SpecRace == Init /\ [][NextRace]_vars

\* No call of the one-thread program is in progress.
AllIdle == caller["c1"].pc = "idle" /\ player.pc = "idle" /\ client["w1"].pc = "idle"

\* A program of one thread that makes one call at a time: Cache.store,
\* Cache.get, replay and get_page calls, and constructions of a new Cache.
NextFlush ==
  \/ \E data \in TwoValues : AllIdle /\ store_call("c1", data)
  \/ count_calls("c1")
  \/ call_history_inputs("c1")
  \/ store("c1")
  \/ call_history_outputs("c1")
  \/ AllIdle /\ Cache_init
  \/ \E key \in Issued : AllIdle /\ get("c1", key)
  \/ AllIdle /\ replay_count
  \/ replay_inputs
  \/ replay_outputs
  \/ \E url \in OneURL : AllIdle /\ page_call("w1", url)
  \/ count_access("w1")
  \/ cache_page_lookup("w1")
  \/ get_page("w1")
  \/ cache_page_store("w1")
SpecFlush == Init /\ [][NextFlush]_vars

\* A Cache instance and get_page in use by a program that makes one call at
\* a time, while another process may construct a Cache of its own at any
\* moment, in the middle of a call too.
NextInit ==
  \/ InCall = {} /\ client["w1"].pc = "idle" /\ store_call("c1", PyStr(<<233>>))
  \/ count_calls("c1")
  \/ call_history_inputs("c1")
  \/ store("c1")
  \/ call_history_outputs("c1")
  \/ \E key \in Issued : InCall = {} /\ client["w1"].pc = "idle" /\ get("c1", key)
  \/ \E url \in OneURL : InCall = {} /\ page_call("w1", url)
  \/ count_access("w1")
  \/ cache_page_lookup("w1")
  \/ get_page("w1")
  \/ cache_page_store("w1")
  \/ Cache_init
SpecInit == Init /\ [][NextInit]_vars

\* Everything: all the callers, the clock, the web server and new Cache
\* instances.
Next == StoreStep(Procs, Values) \/ FailStep(Procs) \/ GetStep(Procs) \/ ReplayStep \/ PageStep(Clients, URLs)
          \/ Tick \/ EditStep \/ Cache_init
Spec == Init /\ [][Next]_vars

\* --------------------------------------------------------------- claims
\* The integer under the counter key, 0 while the key is missing.
CounterOf(db) ==
  LET c == redis_get(db, Key(qualname)) IN
  IF c = PyNone THEN 0 ELSE IntOf(py_int(c.v))
CounterValue == CounterOf(redis)

\* The history lists as the store holds them.
Inputs == redis_lrange(redis, Key(input_key), 0, 0 - 1)
Outputs == redis_lrange(redis, Key(output_key), 0, 0 - 1)

Returned(i) == calls[i].ret.t = "str"
Raised(i) == IsRaise(calls[i].ret)

\* C1: the counter under 'Cache.store' equals the number of invocations of
\* Cache.store made so far, those still waiting at their INCR aside: each
\* invocation increments it exactly once, whatever the callers' interleaving
\* and whether the call later returns or fails; once no call is in flight it
\* equals the number of invocations.
C1_CounterEqualsInvocations ==
  /\ CounterValue + Cardinality({p \in Procs : caller[p].pc = "L12"}) = Len(calls)
  /\ InCall = {} => CounterValue = Len(calls)

\* Three invocations, one of them failed, none in flight: the counter is 3.
C1_Witness ==
  /\ Len(calls) = 3 /\ InCall = {} /\ CounterValue = 3
  /\ \E i \in 1..3 : Raised(i)
  /\ \E i \in 1..3 : Returned(i)

\* C8: the keys Cache.store has written under are pairwise distinct, for
\* sequential and for concurrent calls, and every key written so far still
\* holds the bytes of the data stored under it.
C8_KeysNeverReused ==
  /\ \A i, j \in 1..Len(calls) :
       i # j /\ calls[i].key # <<>> => calls[i].key # calls[j].key
  /\ \A i \in 1..Len(calls) :
       calls[i].step >= 3
         => redis_get(redis, Key(calls[i].key)) = PyBytes(encode(calls[i].data))

\* Two concurrent calls have both written their key after a first call
\* returned, and the three keys hold different data.
C8_Witness ==
  /\ Len(calls) = 3 /\ Returned(1)
  /\ caller["c1"].pc = "L25" /\ caller["c2"].pc = "L25"
  /\ calls[1].data # calls[2].data
  /\ redis_get(redis, Key(calls[1].key)) = PyBytes(encode(calls[1].data))
  /\ redis_get(redis, Key(calls[3].key)) = PyBytes(encode(calls[3].data))

\* A step in which the call of p fails inside the wrapped method.
Failing(p) ==
  /\ caller[p].pc \in {"L23", "L57", "L25"}
  /\ caller'[p].pc = "idle"
  /\ IsRaise(calls'[caller[p].call].ret)

\* C9: when a call fails inside the wrapped method (call_history's wrapper
\* or store), the counter already counts that call and the failure leaves
\* the counter as it is: nothing is rolled back.
C9_FailedCallStaysCounted ==
  [][\A p \in Procs :
       Failing(p) =>
         /\ calls[caller[p].call].step >= 1
         /\ CounterValue >= 1
         /\ CounterOf(redis') = CounterValue
         /\ CounterOf(redis') = Cardinality({i \in 1..Len(calls') : calls'[i].step >= 1})]_vars

\* A call failed at its SET, after the counter and the inputs were written.
C9_Witness ==
  /\ Len(calls) = 1 /\ Raised(1) /\ calls[1].step = 2
  /\ CounterValue = 1 /\ Len(Inputs) = 1 /\ Outputs = <<>>

NoneRaised == \A i \in 1..Len(calls) : ~Raised(i)
AllReturned == \A i \in 1..Len(calls) : Returned(i)

\* C2: in a program that calls Cache.store one call at a time, as long as
\* no call has failed, the inputs list holds one entry per call that has
\* passed its first RPUSH and the outputs list one per call that returned;
\* entry i of the inputs is the text of the argument tuple of call i, entry
\* i of the outputs the key call i returned; between calls both lists have
\* as many entries as there were calls.
C2_HistoryMatchesCalls ==
  NoneRaised =>
    /\ Len(Inputs) = Cardinality({i \in 1..Len(calls) : calls[i].step >= 2})
    /\ Len(Outputs) = Cardinality({i \in 1..Len(calls) : Returned(i)})
    /\ caller["c1"].pc = "idle" => Len(Inputs) = Len(calls) /\ Len(Outputs) = Len(calls)
    /\ \A i \in 1..Len(Inputs) : utf8_decode(Inputs[i]) = PyStr(str_args(calls[i].data))
    /\ \A i \in 1..Len(Outputs) : utf8_decode(Outputs[i]) = calls[i].ret

\* store("é"), store(-7), store(b"\xff") have returned: the inputs are
\* "('é',)", "(-7,)", "(b'\xff',)" and the second output is the second key.
C2_Witness ==
  /\ Len(calls) = 3 /\ AllReturned /\ caller["c1"].pc = "idle"
  /\ Inputs = <<<<40, 39, 195, 169, 39, 44, 41>>, <<40, 45, 55, 44, 41>>, <<40, 98, 39, 92, 120, 102, 102, 39, 44, 41>>>>
  /\ Len(Outputs) = 3
  /\ Outputs[2] = <<48, 48, 48, 48, 48, 48, 48, 48, 45, 48, 48, 48, 48, 45, 52, 48, 48, 48, 45, 56, 48, 48, 48, 45, 48, 48, 48, 48, 48, 48, 48, 48, 48, 48, 48, 50>>
  /\ calls[2].ret = PyStr(<<48, 48, 48, 48, 48, 48, 48, 48, 45, 48, 48, 48, 48, 45, 52, 48, 48, 48, 45, 56, 48, 48, 48, 45, 48, 48, 48, 48, 48, 48, 48, 48, 48, 48, 48, 50>>)

\* The transcript replay owes the calls made so far.
Transcript ==
  <<header_line(Len(calls))>>
    \o [i \in 1..Len(calls) |-> call_line(str_args(calls[i].data), calls[i].ret.v)]

\* C10: in a program that makes one call at a time, a replay that follows
\* N Cache.store calls which all returned prints the header with the count
\* N and then exactly N lines in call order, line i showing the argument
\* tuple of call i and the key call i returned.
C10_ReplayTranscript ==
  (player.pc = "idle" /\ stdout # <<>> /\ AllReturned) => stdout = Transcript

\* replay after store(-7) and store("é"): "Cache.store was called 2 times:",
\* "Cache.store(*(-7,)) -> <key 1>", "Cache.store(*('é',)) -> <key 2>".
C10_Witness ==
  /\ player.pc = "idle" /\ Len(calls) = 2 /\ AllReturned
  /\ stdout = <<<<67, 97, 99, 104, 101, 46, 115, 116, 111, 114, 101, 32, 119, 97, 115, 32, 99, 97, 108, 108, 101, 100, 32, 50, 32, 116, 105, 109, 101, 115, 58>>, <<67, 97, 99, 104, 101, 46, 115, 116, 111, 114, 101, 40, 42, 40, 45, 55, 44, 41, 41, 32, 45, 62, 32, 48, 48, 48, 48, 48, 48, 48, 48, 45, 48, 48, 48, 48, 45, 52, 48, 48, 48, 45, 56, 48, 48, 48, 45, 48, 48, 48, 48, 48, 48, 48, 48, 48, 48, 48, 49>>, <<67, 97, 99, 104, 101, 46, 115, 116, 111, 114, 101, 40, 42, 40, 39, 233, 39, 44, 41, 41, 32, 45, 62, 32, 48, 48, 48, 48, 48, 48, 48, 48, 45, 48, 48, 48, 48, 45, 52, 48, 48, 48, 45, 56, 48, 48, 48, 45, 48, 48, 48, 48, 48, 48, 48, 48, 48, 48, 48, 50>>>>

\* C6: a getter, called with a key that a Cache.store call returned (other
\* store calls may have come in between), finds the data of that call: get
\* returns its bytes, get_str the text itself when the data was a text,
\* get_int the integer itself when the data was an integer.
C6_RoundTrip ==
  \A i \in 1..Len(calls) :
    (got.by # "" /\ Returned(i) /\ got.key = calls[i].ret.v) =>
      /\ got.op = "get" => got.ret = PyBytes(encode(calls[i].data))
      /\ got.op = "get_str" /\ calls[i].data.t = "str" => got.ret = calls[i].data
      /\ got.op = "get_int" /\ calls[i].data.t = "int" => got.ret = calls[i].data

\* store(-7), then two more store calls, then get_int of the first key: -7.
C6_Witness ==
  /\ Len(calls) = 3 /\ AllReturned
  /\ calls[1].data = PyInt(0 - 7)
  /\ got.op = "get_int" /\ got.key = calls[1].ret.v
  /\ got.ret = PyInt(0 - 7)
  /\ redis.str[Key(calls[1].ret.v)] = <<45, 55>>

\* C7: a getter called with a key the store does not hold returns None,
\* calls no conversion function and raises nothing, and no getter call
\* changes the store.
C7_AbsentKeyGivesNone ==
  [][(got' # got /\ got'.by # "") =>
       /\ redis' = redis
       /\ Key(got'.key) \notin (DOMAIN redis.str \cup DOMAIN redis.list)
            => got'.ret = PyNone /\ got'.fn_calls = 0]_vars

\* get_int of a key never issued, after a store call: None, int not called.
C7_Witness ==
  /\ Len(calls) >= 1
  /\ got.op = "get_int" /\ got.ret = PyNone /\ got.fn_calls = 0
  /\ Key(got.key) \notin DOMAIN redis.str

\* The integer under count:<url>, 0 while the key is missing.
PageCountOf(db, url) ==
  LET c == redis_get(db, Key(count_key(url))) IN
  IF c = PyNone THEN 0 ELSE IntOf(py_int(c.v))

\* The get_page calls made for a url so far.
PageCalls(url) == {i \in 1..Len(pages) : pages[i].url = url}

\* C3: for every url, count:<url> equals the number of get_page(url) calls
\* made so far, a call still waiting at its INCR aside: every call adds
\* exactly one, be it a hit, a miss, or a miss whose fetch fails.
C3_EveryAccessCounted ==
  \A url \in URLs :
    PageCountOf(redis, url)
      + Cardinality({w \in Clients : client[w].pc = "L83" /\ client[w].url = url})
      = Cardinality(PageCalls(url))

\* Three calls for one url, a miss, a hit and a call whose fetch failed: 3.
C3_Witness ==
  \E url \in URLs :
    /\ PageCountOf(redis, url) = 3 /\ PageCalls(url) = {1, 2, 3}
    /\ pages[1].step = 4 /\ pages[2].hit = 1 /\ IsRaise(pages[3].ret)

\* A step in which client w finishes the lookup of its cache entry.
Lookup(w) == client[w].pc = "L93" /\ client'[w].pc # "L93"

\* C4: with one client calling in sequence, a call that finds no entry
\* fetches exactly once, stores what it fetched under cache:<url> and
\* returns it; a call that finds the entry (one not yet expired) fetches
\* nothing and returns exactly the content that the call which wrote the
\* entry returned, whatever the server serves by then.
C4_HitReturnsCachedContent ==
  [][\A w \in Clients :
       LET url == client[w].url
           j == client[w].call
       IN /\ Lookup(w) =>
               IF Key(cache_key(url)) \in DOMAIN redis.str
               THEN /\ client'[w].pc = "idle"
                    /\ Author(url) \in 1..(j - 1)
                    /\ pages[Author(url)].fetches = 1
                    /\ pages'[j].fetches = 0
                    /\ pages'[j].ret = pages[Author(url)].ret
               ELSE client'[w].pc = "L96" /\ pages'[j].ret = Pending
          /\ (client[w].pc = "L97" /\ client'[w].pc = "idle") =>
               /\ pages'[j].fetches = 1
               /\ pages'[j].ret = PyStr(client[w].content)
               /\ utf8_decode(redis'.str[Key(cache_key(url))]) = pages'[j].ret]_vars

\* A hit that returned the content of the first call after the server had
\* changed what it serves.
C4_Witness ==
  \E j \in 1..Len(pages) :
    /\ pages[j].hit = 1 /\ pages[j].fetches = 0
    /\ pages[j].ret = pages[1].ret
    /\ pages[j].ret # PyStr(upstream[pages[j].url])

\* C5: the entry cache:<url> expires TTL = 10 seconds after the miss that
\* wrote it, and hits change nothing about that: at every moment the entry
\* is present exactly while fewer than 10 seconds have passed since the
\* last write, its expiry is the time of that write plus 10, and the call
\* that wrote it is a miss that fetched; so from 10 seconds after a write
\* on the entry is absent and the next call fetches and writes anew.
C5_ExpiryFixedAtWrite ==
  \A url \in URLs :
    LET k == Key(cache_key(url))
        L == {i \in PageCalls(url) : pages[i].live}
    IN /\ Cardinality(L) <= 1
       /\ k \in DOMAIN redis.str <=> \E i \in L : now < pages[i].set_at + TTL
       /\ \A i \in L :
            /\ pages[i].fetches = 1 /\ pages[i].hit = 0 /\ pages[i].set_at >= 0
            /\ k \in DOMAIN redis.str => redis.exp[k] = pages[i].set_at + TTL

\* An entry written at time 0 was hit later, expired, and a third call, made
\* 10 seconds or more after the first, fetched again and wrote a new entry.
C5_Witness ==
  \E url \in URLs :
    /\ PageCalls(url) = {1, 2, 3}
    /\ pages[1].set_at = 0 /\ pages[2].hit = 1
    /\ pages[3].live /\ pages[3].fetches = 1 /\ pages[3].set_at >= TTL
    /\ redis.exp[Key(cache_key(url))] = pages[3].set_at + TTL

\* C11: replay changes nothing in the store: every step of it leaves the
\* counter, both lists and all other keys as they were. What it has printed
\* when it ends is the header, with the count 0 where the counter key is
\* missing, and below it min(len(inputs), len(outputs)) lines, line i made
\* of entry i of the inputs and entry i of the outputs; lists of unequal
\* length stop no line of the shorter length from being printed.
C11_ReplayReadOnly ==
  /\ [][player' # player => redis' = redis]_vars
  /\ [](player.pc = "idle" /\ stdout # <<>> =>
          LET n == IF Len(Inputs) < Len(Outputs) THEN Len(Inputs) ELSE Len(Outputs)
          IN /\ Len(stdout) = 1 + n
             /\ Key(qualname) \notin DOMAIN redis.str => stdout[1] = header_line(0)
             /\ \A i \in 1..n :
                  stdout[i + 1] = call_line(utf8_decode(Inputs[i]).v, utf8_decode(Outputs[i]).v))

\* replay after a call that returned, a call that failed at its SET and a
\* call that failed at its second RPUSH: three inputs, one output, one line.
C11_Witness ==
  /\ player.pc = "idle" /\ Len(stdout) = 2
  /\ Len(calls) = 3 /\ Returned(1) /\ Raised(2) /\ Raised(3)
  /\ Len(Inputs) = 3 /\ Len(Outputs) = 1
  /\ stdout[1] = header_line(3)

\* The get_page calls for a url made after the latest Cache().
PageCallsSince(url) == {j \in PageCalls(url) : j > flushes[Len(flushes)].pages}

\* C12: in a program that makes one call at a time, once a flush has
\* happened: until the next call writes, the store holds no key at all (no
\* counter, no list, no value, no cache entry, no access counter); Cache.get
\* of a key returned before the flush returns None; a replay that runs
\* before the next Cache.store call prints the header with 0 and no line;
\* and count:<url> counts the get_page(url) calls made since the flush, the
\* first of which finds no entry and fetches.
C12_FlushClearsAll ==
  Len(flushes) >= 1 =>
    LET f == flushes[Len(flushes)] IN
    /\ (Len(calls) = f.calls /\ Len(pages) = f.pages) => redis = EmptyDb
    /\ \A i \in 1..f.calls :
         /\ Key(calls[i].key) \notin DOMAIN redis.str
         /\ (got.by # "" /\ got.key = calls[i].key) => got.ret = PyNone
    /\ (player.pc = "idle" /\ stdout # <<>> /\ Len(calls) = f.calls)
         => stdout = <<header_line(0)>>
    /\ \A url \in OneURL :
         LET S == PageCallsSince(url) IN
         /\ PageCountOf(redis, url)
              + (IF client["w1"].pc = "L83" /\ client["w1"].url = url THEN 1 ELSE 0)
              = Cardinality(S)
         /\ \A j \in S :
              (\A h \in S : j <= h) /\ pages[j].step >= 2
                => /\ pages[j].hit = 0
                   /\ pages[j].step = 2 => client["w1"].pc = "L96" /\ client["w1"].call = j
                   /\ pages[j].step >= 3 => pages[j].fetches = 1

\* A store call returned and a page was cached; then a Cache() was made;
\* since then get of the returned key gave None, replay printed "Cache.store
\* was called 0 times:" alone, and get_page found no entry, fetched, and has
\* count:<url> at 1.
C12_Witness ==
  /\ Len(flushes) = 1 /\ flushes[1].calls = 1 /\ flushes[1].pages = 1
  /\ Len(calls) = 1 /\ Returned(1) /\ Key(calls[1].key) \in flushes[1].keys
  /\ Key(cache_key(pages[1].url)) \in flushes[1].keys
  /\ got.op = "get" /\ got.key = calls[1].key /\ got.ret = PyNone
  /\ stdout = <<header_line(0)>>
  /\ Len(pages) = 2 /\ pages[2].step = 4 /\ pages[2].hit = 0 /\ pages[2].fetches = 1
  /\ PageCountOf(redis, pages[2].url) = 1

\* C19: the construction of a Cache leaves the shared database empty: the
\* counters, the history lists and the values written through the
\* instances in use, and the cache:<url> and count:<url> keys of the page
\* cache, are all removed. A value whose key was in the database when some
\* Cache was constructed is never found again: Cache.get of its key returns
\* None, also where the Cache.store call returns that key only afterwards.
C19_InitFlushesSharedStore ==
  /\ [][Len(flushes') > Len(flushes) =>
         /\ redis' = EmptyDb
         /\ \A i \in 1..Len(calls) : Cache_get(redis', calls[i].key, "None").ret = PyNone]_vars
  /\ [](\A n \in 1..Len(flushes), i \in 1..Len(calls) :
          Key(calls[i].key) \in flushes[n].keys =>
            /\ redis_get(redis, Key(calls[i].key)) = PyNone
            /\ (got.by # "" /\ got.key = calls[i].key) => got.ret = PyNone)

\* A Cache was constructed while the database held the counter, both
\* lists, a stored value and the page cache's two keys; the store call that
\* wrote the value returned its key after that, and get of the key gave None.
C19_Witness ==
  /\ Len(flushes) = 1
  /\ {Key(qualname), Key(input_key), Key(output_key)} \subseteq flushes[1].keys
  /\ \E url \in OneURL : {Key(cache_key(url)), Key(count_key(url))} \subseteq flushes[1].keys
  /\ \E i \in 1..Len(calls) :
       /\ Returned(i) /\ Key(calls[i].key) \in flushes[1].keys
       /\ Outputs = <<Key(calls[i].key)>>
       /\ got.key = calls[i].key /\ got.ret = PyNone

\* The get_page call for the same url that follows call j, if there is one.
NextPageCall(j) ==
  LET later == {h \in PageCalls(pages[j].url) : h > j}
  IN IF later = {} THEN 0 ELSE CHOOSE h \in later : \A g \in later : h <= g

\* C13: a get_page(url) call that found no entry and whose fetch fails ends
\* with the error at its caller, not with a content; the step writes nothing
\* to the store, so cache:<url> stays absent and count:<url> keeps the
\* increment the call made; and, with one client calling in sequence, the
\* next call for that url finds no entry either and goes on to fetch.
C13_FetchFailurePropagates ==
  /\ [][\A w \in Clients :
          (client[w].pc = "L96" /\ client'[w].pc = "idle") =>
            /\ IsRaise(pages'[client[w].call].ret)
            /\ pages'[client[w].call].fetches = 0
            /\ redis' = redis
            /\ Key(cache_key(client[w].url)) \notin DOMAIN redis'.str
            /\ PageCountOf(redis', client[w].url) = Cardinality(PageCalls(client[w].url))]_vars
  /\ [](\A j \in 1..Len(pages) :
          (IsRaise(pages[j].ret) /\ NextPageCall(j) # 0 /\ pages[NextPageCall(j)].step >= 2) =>
            LET h == NextPageCall(j) IN
            /\ pages[h].hit = 0
            /\ pages[h].step = 2 /\ ~IsRaise(pages[h].ret)
                 => \E w \in Clients : client[w].pc = "L96" /\ client[w].call = h
            /\ pages[h].step >= 3 => pages[h].fetches = 1)

\* A page was cached at time 0; after its expiry a second call for the url
\* failed at the fetch; the third call fetched again; count:<url> is 3.
C13_Witness ==
  /\ Len(pages) = 3 /\ PageCalls(pages[1].url) = {1, 2, 3}
  /\ pages[1].step = 4 /\ pages[1].set_at = 0
  /\ IsRaise(pages[2].ret) /\ pages[2].step = 2 /\ pages[2].fetches = 0
  /\ pages[3].fetches = 1 /\ pages[3].hit = 0
  /\ PageCountOf(redis, pages[1].url) = 3

\* C16: count:<url> carries no expiry and never decreases; when time
\* passes the store removes nothing but cache:<url> entries whose expiry has
\* come, and every key that stays keeps its value: the counter goes on
\* counting across the expiry of the entry and the fetch that follows.
C16_AccessCounterNeverExpires ==
  [][/\ \A url \in URLs :
          /\ PageCountOf(redis', url) >= PageCountOf(redis, url)
          /\ Key(count_key(url)) \notin DOMAIN redis'.exp
     /\ now' # now =>
          /\ DOMAIN redis'.str \subseteq DOMAIN redis.str
          /\ \A k \in DOMAIN redis'.str : redis'.str[k] = redis.str[k]
          /\ \A k \in DOMAIN redis.str \ DOMAIN redis'.str :
               /\ \E url \in URLs : k = Key(cache_key(url))
               /\ redis.exp[k] <= now']_vars

\* A miss at time 0, a hit, the expiry of the entry, and a third call that
\* fetched anew: count:<url> stands at 3 and carries no expiry.
C16_Witness ==
  \E url \in URLs :
    /\ PageCountOf(redis, url) = 3 /\ PageCalls(url) = {1, 2, 3}
    /\ pages[1].set_at = 0 /\ pages[2].hit = 1 /\ pages[3].set_at >= TTL
    /\ Key(count_key(url)) \in DOMAIN redis.str \ DOMAIN redis.exp
    /\ Key(cache_key(url)) \in DOMAIN redis.exp

\* C15: nothing keeps a second caller from fetching a url that a first is
\* fetching. Every get_page call that finds no entry goes on to fetch,
\* whatever the other callers are doing, and its SETEX writes the content
\* it fetched itself over any entry written meanwhile, with the expiry
\* TTL seconds from that write; it returns the content it fetched. So the
\* entry holds the content of the SETEX that ran last, and count:<url>
\* counts every caller once.
C15_NoSingleFlight ==
  /\ [][\A w \in Clients :
          LET k == Key(cache_key(client[w].url)) IN
          /\ (client[w].pc = "L93" /\ client'[w].pc # "L93" /\ k \notin DOMAIN redis.str)
               => client'[w].pc = "L96"
          /\ (client[w].pc = "L97" /\ client'[w].pc = "idle") =>
               /\ redis'.str[k] = encode(PyStr(client[w].content))
               /\ redis'.exp[k] = now + TTL
               /\ pages'[client[w].call].ret = PyStr(client[w].content)
               /\ pages'[client[w].call].fetches = 1]_vars
  /\ [](\A url \in OneURL :
          /\ PageCountOf(redis, url)
               + Cardinality({w \in Clients : client[w].pc = "L83" /\ client[w].url = url})
               = Cardinality(PageCalls(url))
          /\ Key(cache_key(url)) \in DOMAIN redis.str =>
               /\ Author(url) # 0
               /\ utf8_decode(redis.str[Key(cache_key(url))]) = pages[Author(url)].ret
               /\ redis.exp[Key(cache_key(url))] = pages[Author(url)].set_at + TTL
               /\ \A j \in PageCalls(url) : pages[j].step = 4 => pages[j].set_at <= pages[Author(url)].set_at)

\* Two callers asked for the same url at time 0, both found no entry and
\* both fetched, the server having changed its content in between; each
\* returned what it had fetched; the entry holds the content of the caller
\* whose SETEX came second, and count:<url> is 2.
C15_Witness ==
  \E url \in OneURL : \E a, b \in {1, 2} :
    /\ a # b /\ PageCalls(url) = {1, 2}
    /\ pages[a].step = 4 /\ pages[b].step = 4
    /\ pages[a].fetches = 1 /\ pages[b].fetches = 1
    /\ pages[a].set_at = 0 /\ pages[b].set_at = 0
    /\ pages[a].ret # pages[b].ret
    /\ pages[a].live /\ ~pages[b].live
    /\ redis.str[Key(cache_key(url))] = encode(pages[a].ret)
    /\ redis.exp[Key(cache_key(url))] = TTL
    /\ PageCountOf(redis, url) = 2

\* The calls that have got as far as their n-th write to the store.
Reached(n) == {i \in 1..Len(calls) : calls[i].step >= n}

\* The values Cache.store has written: the string keys other than the counter.
Written == DOMAIN redis.str \ {Key(qualname)}

\* C17: every Cache.store call writes in the order INCR of the counter,
\* RPUSH to the inputs, SET of the value, RPUSH to the outputs, so at every
\* moment, for concurrent calls and calls that fail part-way (no flush):
\* the counter counts the calls past their INCR, the inputs those past their
\* first RPUSH, the written values those past their SET and the outputs
\* those that returned, each group inside the one before; hence
\* counter >= len(inputs) >= len(outputs), and len(outputs) is at most the
\* number of values written.
C17_WriteOrder ==
  /\ CounterValue = Cardinality(Reached(1))
  /\ Len(Inputs) = Cardinality(Reached(2))
  /\ Cardinality(Written) = Cardinality(Reached(3))
  /\ Len(Outputs) = Cardinality(Reached(4))
  /\ CounterValue >= Len(Inputs)
  /\ Len(Inputs) >= Len(Outputs)
  /\ Cardinality(Written) >= Len(Outputs)

\* Three calls: one returned, one failed at its SET, and one of a second
\* caller is past its INCR: counter 3, two inputs, one value, one output.
C17_Witness ==
  /\ Len(calls) = 3 /\ CounterValue = 3
  /\ Len(Inputs) = 2 /\ Cardinality(Written) = 1 /\ Len(Outputs) = 1
  /\ \E i \in 1..3 : Raised(i) /\ calls[i].step = 2
  /\ \E p \in Procs : caller[p].pc = "L23"

\* The call that returned the key under entry i of the outputs.
CallOfOutput(i) == CHOOSE c \in 1..Len(calls) : Key(calls[c].key) = Outputs[i]

\* C14: once all of several concurrent Cache.store calls have returned,
\* the two lists are aligned: they have one entry per call, and entry i of
\* the inputs is the argument text of the very call whose key is entry i of
\* the outputs.
C14_ConcurrentAlignment ==
  (InCall = {} /\ AllReturned) =>
    /\ Len(Inputs) = Len(calls) /\ Len(Outputs) = Len(calls)
    /\ \A i \in 1..Len(Outputs) :
         Inputs[i] = encode(PyStr(str_args(calls[CallOfOutput(i)].data)))

\* C18: every line replay prints shows the argument text and the returned
\* key of one and the same Cache.store call, also after an earlier call
\* failed between its two RPUSHes and later calls returned.
C18_ReplayPairsSameInvocation ==
  (player.pc = "idle" /\ stdout # <<>>) =>
    \A i \in 1..(Len(stdout) - 1) :
      LET c == CallOfOutput(i)
      IN stdout[i + 1] = call_line(str_args(calls[c].data), calls[c].key)

\* C20: the call lines of a replay are never more than the count in its
\* header, also while Cache.store calls run beside it.
C20_LinesWithinHeaderCount ==
  (player.pc = "idle" /\ stdout # <<>>) =>
    \E n \in (Len(stdout) - 1)..MaxCalls : stdout[1] = header_line(n)

\* C20, amended: the call lines of a replay are never more than the value
\* the counter has when replay reads the outputs, its last read. The header
\* shows the value read first, which is smaller by the INCRs that Cache.store
\* calls made between the two reads; where there was none, the lines are
\* within the count of the header.
C20_LinesWithinCounterAtLastRead ==
  [][(player.pc = "L39" /\ player'.pc = "idle") =>
       /\ stdout'[1] = header_line(player.call_count)
       /\ player.call_count <= CounterValue
       /\ Len(stdout') - 1 <= CounterValue
       /\ player.call_count = CounterValue => Len(stdout') - 1 <= player.call_count]_vars

\* replay read the counter at 1; a second call then ran from its INCR to
\* its return before replay read the lists: the header says 1 time, two
\* lines follow, and the counter is 2.
C20_Witness ==
  /\ player.pc = "idle" /\ Len(stdout) = 3
  /\ stdout[1] = header_line(1)
  /\ CounterValue = 2 /\ Len(Outputs) = 2

====
